---- MODULE Spec2Model ----
(***************************************************************************)
(* Model of the service-worker cache core of audioserve-web:               *)
(*   buildResponse / parseRange, evictCache, AudioCache (request queue,    *)
(*   handleRequest, handlePrefetch, abort) and NetworkFirstCache.          *)
(* All code runs on one event loop: an action is one callback, run to      *)
(* completion; promises settle between actions.                            *)
(***************************************************************************)
EXTENDS Integers, Sequences, FiniteSets, TLC

VARIABLES
  queue,        \* AudioCache.queue: sequence of FetchQueueItem
  created,      \* number of AbortControllers made by direct callers of add
  store,        \* the named Cache: keys in insertion order
  lastPut,      \* the key of the last cache.put that resolved on the named Cache
  sizeLimit,    \* the sizeLimit the controller was constructed with
  aborts,       \* number of external AudioCache.abort calls made so far
  pc,           \* per request: position in its promise chain
  kind,         \* per request: "direct" | "prefetch" | "nf"
  url,          \* per request: the request URL; keyReq / keyUrl once the handler holds it
  hit,          \* per request: result of cache.match
  fetched,      \* per request: how its network fetch settled
  evKeys,       \* per request: evictCache local `keys`
  evIdx,        \* per request: position in evictCache's reversed deleteList
  sent,         \* per request: messages it passed to broadcastMessage
  response,     \* per request: what evt.respondWith settled with
  fetches,      \* per request: number of network fetches it issued
  isEnabled,    \* NetworkFirstCache.isEnabled
  body,         \* buildResponse: body of originalResponse
  rangeHeader,  \* buildResponse: the range argument
  result        \* buildResponse: the returned response

vars == <<queue, created, store, lastPut, sizeLimit, aborts, pc, kind, url, hit, fetched,
          evKeys, evIdx, sent, response, fetches, isEnabled,
          body, rangeHeader, result>>

storeVars == <<store, lastPut>>
procVars == <<pc, kind, url, hit, fetched, evKeys, evIdx, sent, response, fetches>>
rangeVars == <<body, rangeHeader, result>>
fixedVars == <<created, sizeLimit, isEnabled, rangeVars>>

----------------------------------------------------------------------------
(* Bounds *)

NReq == 2          \* number of intercepted requests / prefetch messages
MaxAborts == 1     \* number of external abort(pathPrefix, keepDirect) calls
SizeLimit == 1     \* the sizeLimit the controllers are constructed with
MaxLen == 11       \* largest body length given to buildResponse
NEvictKeys == 3    \* number of distinct keys in the store of the eviction runs
MaxCreated == 3    \* number of direct calls of AudioCache.add

Req == 1..NReq

----------------------------------------------------------------------------
(* URLs.  A URL is a path (a sequence of characters) and a query flag.     *)

Paths == {<<1>>, <<1, 2>>}
Urls == [path : Paths, query : BOOLEAN]
Prefixes == {<<>>, <<1, 2>>, <<2>>}

\* removeQuery (imported from "."): strips the query string
removeQuery(u) == [u EXCEPT !.query = FALSE]

\* String.prototype.startsWith on pathname
startsWith(s, prefix) ==
  /\ Len(prefix) <= Len(s)
  /\ SubSeq(s, 1, Len(prefix)) = prefix

----------------------------------------------------------------------------
(* Sequence helpers *)

RECURSIVE Reverse(_)
Reverse(s) == IF s = <<>> THEN <<>> ELSE Append(Reverse(Tail(s)), Head(s))

RECURSIVE Without(_, _)
Without(s, x) ==
  IF s = <<>> THEN <<>>
  ELSE IF Head(s) = x THEN Without(Tail(s), x)
  ELSE <<Head(s)>> \o Without(Tail(s), x)

Range(s) == {s[i] : i \in 1..Len(s)}

Min(a, b) == IF a < b THEN a ELSE b
Max(a, b) == IF a > b THEN a ELSE b

----------------------------------------------------------------------------
(* buildResponse and parseRange.  Header values are character sequences;   *)
(* the literal prefix "bytes=" / "bytes " is kept as one element.          *)

Digits == <<"0", "1", "2", "3", "4", "5", "6", "7", "8", "9">>

isDigit(c) == \E i \in 1..10 : Digits[i] = c

digitVal(c) == CHOOSE i \in 0..9 : Digits[i + 1] = c

\* decimal rendering of a non-negative integer (template-literal ${n})
RECURSIVE Str(_)
Str(n) ==
  IF n < 0 THEN <<"-">> \o Str(0 - n)
  ELSE IF n < 10 THEN <<Digits[n + 1]>>
  ELSE Append(Str(n \div 10), Digits[(n % 10) + 1])

\* Number(s) for a string of decimal digits
RECURSIVE Number(_)
Number(s) ==
  IF s = <<>> THEN 0
  ELSE Number(SubSeq(s, 1, Len(s) - 1)) * 10 + digitVal(s[Len(s)])

\* the longest prefix of s made of digits: what (\d+) matches at the start of s
RECURSIVE digitRun(_)
digitRun(s) ==
  IF s # <<>> /\ isDigit(Head(s)) THEN <<Head(s)>> \o digitRun(Tail(s))
  ELSE <<>>

dropN(s, n) == SubSeq(s, n + 1, Len(s))

\* An optional number: <<>> is undefined, <<n>> is the number n.
Undefined == <<>>

\* `x ? a : b` on an optional number: undefined and 0 are falsy
truthy(x) == x # Undefined /\ x[1] # 0

\* parseRange: /^bytes=(\d+)-?(\d+)?/ on a header that matches
parseRange(range) ==
  LET rest   == Tail(range)
      r1     == digitRun(rest)
      after1 == dropN(rest, Len(r1))
      after2 == IF after1 # <<>> /\ Head(after1) = "-" THEN Tail(after1) ELSE after1
      r2     == digitRun(after2)
  IN  [start |-> Number(r1),
       end   |-> IF r2 # <<>> THEN <<Number(r2)>> ELSE Undefined]

\* Blob.slice(start, end) with non-negative arguments: both clamped to size
slice(b, start, end) ==
  LET size == Len(b)
      s    == Min(start, size)
      e    == IF end = Undefined THEN size ELSE Min(end[1], size)
      span == Max(e - s, 0)
  IN  SubSeq(b, s + 1, s + span)

\* the Content-Range header value `bytes ${start}-${end}/${size}`
contentRange(start, end, size) ==
  <<"bytes ">> \o Str(start) \o <<"-">> \o Str(end) \o <<"/">> \o Str(size)

NoResponse == [status |-> 0, contentRange |-> <<>>, contentType |-> "", body |-> <<>>]

\* a complete stored response with the given body
fullResponse(b) ==
  [status |-> 200, contentRange |-> <<>>, contentType |-> "audio/mpeg", body |-> b]

buildResponseSizeEnd(originalResponse, range) ==
  IF range # <<>>
  THEN LET size == Len(originalResponse.body)
           r    == parseRange(range)
       IN  [status       |-> 206,
            contentRange |-> contentRange(r.start,
                               IF truthy(r.end) THEN r.end[1] ELSE size, size),
            contentType  |-> originalResponse.contentType,
            body         |-> slice(originalResponse.body, r.start,
                               IF truthy(r.end) THEN <<r.end[1] + 1>> ELSE Undefined)]
  ELSE originalResponse

buildResponse(originalResponse, range) ==
  IF range # <<>>
  THEN LET size == Len(originalResponse.body)
           r    == parseRange(range)
       IN  [status       |-> 206,
            contentRange |-> contentRange(r.start,
                               IF truthy(r.end) THEN r.end[1] ELSE size - 1, size),
            contentType  |-> originalResponse.contentType,
            body         |-> slice(originalResponse.body, r.start,
                               IF truthy(r.end) THEN <<r.end[1] + 1>> ELSE Undefined)]
  ELSE originalResponse

\* a Range request header as a client writes it: bytes=S-E or bytes=S-
rangeOf(s, end) ==
  <<"bytes=">> \o Str(s) \o <<"-">> \o (IF end = Undefined THEN <<>> ELSE Str(end[1]))

Bodies == {[i \in 1..n |-> (i * m) % 256] : n \in 0..MaxLen, m \in {1, 37}}

RangeHeaders ==
  {<<>>} \cup {rangeOf(s, Undefined) : s \in 0..MaxLen}
         \cup {rangeOf(s, <<e>>) : s \in 0..MaxLen, e \in 0..MaxLen}

----------------------------------------------------------------------------
(* The Cache (CacheStorage) the controllers write to: keys in insertion    *)
(* order.  put replaces an existing record and appends the new one.        *)

\* the record stored last among those the Cache holds: keys() is in insertion order
newest(st) == IF st = <<>> THEN [path |-> <<>>, query |-> FALSE] ELSE st[Len(st)]

cachePutDropped(st, key) == st

cachePut(st, key) == Append(Without(st, key), key)

cacheHasAlways(st, key) == TRUE

cacheHas(st, key) == key \in Range(st)

----------------------------------------------------------------------------
(* evictCache *)

\* keys.slice(0, toDelete).reverse(), empty when toDelete <= 0
deleteListOldestKept(keys, limit) ==
  LET toDelete == Len(keys) - limit
  IN  IF toDelete > 0 THEN Reverse(SubSeq(keys, 2, toDelete)) ELSE <<>>

deleteList(keys, limit) ==
  LET toDelete == Len(keys) - limit
  IN  IF toDelete > 0 THEN Reverse(SubSeq(keys, 1, toDelete)) ELSE <<>>

----------------------------------------------------------------------------
(* AudioCache: the request queue.  An AbortController is an identity (the  *)
(* request that created it) and the aborted flag of its signal.            *)

AbortController(id) == [id |-> id, aborted |-> FALSE]

FetchQueueItem(u, abort, isDirect) == [url |-> u, abort |-> abort, isDirect |-> isDirect]

hasNever(q, u) == FALSE

has(q, u) == \E i \in 1..Len(q) : q[i].url = u

\* `i.abort.abort()` on the items of q at the positions in sel
abortAll(q, sel) ==
  [i \in 1..Len(q) |->
     IF i \in sel THEN [q[i] EXCEPT !.abort.aborted = TRUE] ELSE q[i]]

addAbortsNothing(q, u, abort, isDirect) ==
  Append(q, FetchQueueItem(u, abort, isDirect))

addAbortsEvery(q, u, abort, isDirect) ==
  Append(IF isDirect THEN abortAll(q, 1..Len(q)) ELSE q,
         FetchQueueItem(u, abort, isDirect))

add(q, u, abort, isDirect) ==
  Append(IF isDirect THEN abortAll(q, {i \in 1..Len(q) : q[i].isDirect}) ELSE q,
         FetchQueueItem(u, abort, isDirect))

deleteNothing(q, u) == q

\* delete: removes the first item with that url
delete(q, u) ==
  IF has(q, u)
  THEN LET idx == CHOOSE i \in 1..Len(q) :
                    q[i].url = u /\ \A j \in 1..(i - 1) : q[j].url # u
       IN  SubSeq(q, 1, idx - 1) \o SubSeq(q, idx + 1, Len(q))
  ELSE q

abortIgnoresKeepDirect(q, pathPrefix, keepDirect) ==
  abortAll(q, {i \in 1..Len(q) :
                 pathPrefix = <<>> \/ startsWith(q[i].url.path, pathPrefix)})

abort(q, pathPrefix, keepDirect) ==
  abortAll(q, {i \in 1..Len(q) :
                 /\ ~(keepDirect /\ q[i].isDirect)
                 /\ (pathPrefix = <<>> \/ startsWith(q[i].url.path, pathPrefix))})

\* signal.aborted of the controller that request p registered
aborted(p) == \E i \in 1..Len(queue) : queue[i].abort.id = p /\ queue[i].abort.aborted

----------------------------------------------------------------------------
(* Messages and responses *)

Msg(k, key) == [kind |-> k, cachedUrl |-> key]

NoResp == [from |-> "none", status |-> 0]
NetworkResp(status) == [from |-> "network", status |-> status]
CachedResp == [from |-> "cache", status |-> 200]
ErrorRespUnsettled == [from |-> "none", status |-> 0]

\* new Response("...", { status: 555 })
ErrorResp == [from |-> "synthetic", status |-> 555]

NoUrl == [path |-> <<>>, query |-> FALSE]

\* requests are numbered in the order they arrive
canStart(p) == pc[p] = "idle" /\ (IF p = 1 THEN TRUE ELSE pc[p - 1] # "idle")

\* request p moves to position l; when its chain has ended ("done"), or ended
\* in a rejected promise that nothing handles ("unhandled"), its locals are gone
goto(p, l) ==
  /\ pc' = [pc EXCEPT ![p] = l]
  /\ IF l \in {"done", "unhandled"}
     THEN /\ url' = [url EXCEPT ![p] = NoUrl]
          /\ evKeys' = [evKeys EXCEPT ![p] = <<>>]
          /\ evIdx' = [evIdx EXCEPT ![p] = 0]
          /\ UNCHANGED hit
     ELSE UNCHANGED <<url, hit, evKeys, evIdx>>

----------------------------------------------------------------------------
(* evictCache, one awaited store operation per action *)

\* `await cache.keys()` settles; when it resolves the loop starts its first
\* cache.delete.  No caller awaits or catches the promise of evictCache (159,
\* 221), or the chain it is returned into (279-283): a rejection is unhandled.
EvictKeys(p) ==
  /\ pc[p] = "evictKeys"
  /\ \E ok \in BOOLEAN :
       IF ~ok
       THEN goto(p, "unhandled")
       ELSE IF deleteList(store, sizeLimit) = <<>>
       THEN goto(p, "done")
       ELSE /\ pc' = [pc EXCEPT ![p] = "evictDel"]
            /\ evKeys' = [evKeys EXCEPT ![p] = store]
            /\ evIdx' = [evIdx EXCEPT ![p] = 1]
            /\ UNCHANGED <<url, hit>>
  /\ UNCHANGED <<queue, storeVars, aborts, kind, fetched, sent,
                 response, fetches, fixedVars>>

\* `await cache.delete(key)` settles: it resolves true and onDelete(key) is
\* called when it deleted a record, resolves false when there was none, and
\* its rejection ends the run in an unhandled rejection
EvictDelete(p) ==
  /\ pc[p] = "evictDel"
  /\ LET list == deleteList(evKeys[p], sizeLimit)
         key  == list[evIdx[p]]
     IN  \E ok \in BOOLEAN :
           IF ~ok
           THEN /\ goto(p, "unhandled")
                /\ UNCHANGED <<storeVars, sent>>
           ELSE /\ IF cacheHas(store, key)
                   THEN /\ store' = Without(store, key)
                        /\ UNCHANGED lastPut
                        /\ sent' = IF kind[p] = "nf" THEN sent
                                   ELSE [sent EXCEPT ![p] = Append(@, Msg("Deleted", key))]
                   ELSE UNCHANGED <<storeVars, sent>>
                /\ IF evIdx[p] < Len(list)
                   THEN /\ evIdx' = [evIdx EXCEPT ![p] = @ + 1]
                        /\ UNCHANGED <<pc, evKeys, url, hit>>
                   ELSE goto(p, "done")
  /\ UNCHANGED <<queue, aborts, kind, fetched,
                 response, fetches, fixedVars>>

----------------------------------------------------------------------------
(* AudioCache.handleRequest *)

\* handleRequest(evt): caches.open and cache.match(evt.request) settle; a
\* rejection goes to the outer catch, which answers 555
HandleRequest(p, u) ==
  /\ canStart(p)
  /\ kind' = [kind EXCEPT ![p] = "direct"]
  /\ \E ok \in BOOLEAN :
       IF ok
       THEN /\ url' = [url EXCEPT ![p] = u]
            /\ hit' = [hit EXCEPT ![p] = cacheHas(store, u)]
            /\ pc' = [pc EXCEPT ![p] = "matched"]
            /\ UNCHANGED <<response, evKeys, evIdx>>
       ELSE /\ response' = [response EXCEPT ![p] = ErrorResp]
            /\ goto(p, "done")
  /\ UNCHANGED <<queue, storeVars, aborts, fetched, sent, fetches,
                 fixedVars>>

\* the callback of cache.match: serve the hit, pass through, or enqueue and fetch
Matched(p) ==
  /\ pc[p] = "matched"
  /\ LET keyReq == removeQuery(url[p])
     IN  IF hit[p]
         THEN /\ \E ok \in BOOLEAN :
                   response' = [response EXCEPT ![p] = IF ok THEN CachedResp ELSE ErrorResp]
              /\ goto(p, "done")
              /\ UNCHANGED <<queue, fetches>>
         ELSE IF has(queue, keyReq)
         THEN /\ fetches' = [fetches EXCEPT ![p] = @ + 1]
              /\ pc' = [pc EXCEPT ![p] = "passFetch"]
              /\ url' = [url EXCEPT ![p] = keyReq]
              /\ UNCHANGED <<queue, response, hit, evKeys, evIdx>>
         ELSE /\ queue' = add(queue, keyReq, AbortController(p), TRUE)
              /\ fetches' = [fetches EXCEPT ![p] = @ + 1]
              /\ pc' = [pc EXCEPT ![p] = "fetch"]
              /\ url' = [url EXCEPT ![p] = keyReq]
              /\ UNCHANGED <<response, hit, evKeys, evIdx>>
  /\ UNCHANGED <<storeVars, aborts, kind, fetched, sent, fixedVars>>

\* fetch(evt.request) of the pass-through settles
PassFetchSettle(p) ==
  /\ pc[p] = "passFetch"
  /\ \E ok \in BOOLEAN :
       response' = [response EXCEPT ![p] = IF ok THEN NetworkResp(200) ELSE ErrorResp]
  /\ goto(p, "done")
  /\ UNCHANGED <<queue, storeVars, aborts, kind, fetched, sent, fetches,
                 fixedVars>>

\* fetch(req, {signal}) settles: on a response cache.put is called and the
\* response returned; a rejection goes to the outer catch, which answers 555
FetchSettle(p) ==
  /\ pc[p] = "fetch"
  /\ \E outcome \in IF aborted(p) THEN {"abort"} ELSE {"ok", "neterr"} :
       /\ fetched' = [fetched EXCEPT ![p] = outcome]
       /\ IF outcome = "ok"
          THEN /\ response' = [response EXCEPT ![p] = NetworkResp(200)]
               /\ goto(p, "put")
          ELSE /\ response' = [response EXCEPT ![p] = ErrorResp]
               /\ goto(p, "done")
  /\ UNCHANGED <<queue, storeVars, aborts, kind, sent, fetches,
                 fixedVars>>

\* cache.put(keyReq, resp.clone()) settles: .then(broadcast, evictCache)
\* .catch(logFetchError) .then(delete)
PutSettle(p) ==
  /\ pc[p] = "put"
  /\ LET keyReq == removeQuery(url[p])
     IN  /\ \E ok \in BOOLEAN :
              IF ok
              THEN /\ store' = cachePut(store, keyReq)
                   /\ lastPut' = keyReq
                   /\ sent' = [sent EXCEPT ![p] = Append(@, Msg("ActualCached", keyReq))]
                   /\ goto(p, "evictKeys")
              ELSE /\ goto(p, "done")
                   /\ UNCHANGED <<storeVars, sent>>
         /\ queue' = delete(queue, keyReq)
  /\ UNCHANGED <<aborts, kind, fetched, response, fetches,
                 fixedVars>>

----------------------------------------------------------------------------
(* AudioCache.handlePrefetch *)

\* handlePrefetch(evt): the synchronous part, up to the fetch call
HandlePrefetch(p, u) ==
  /\ canStart(p)
  /\ kind' = [kind EXCEPT ![p] = "prefetch"]
  /\ LET keyUrl == removeQuery(u)
     IN  IF has(queue, keyUrl)
         THEN /\ sent' = [sent EXCEPT ![p] = Append(@, Msg("Skipped", keyUrl))]
              /\ goto(p, "done")
              /\ UNCHANGED <<queue, fetches>>
         ELSE /\ queue' = add(queue, keyUrl, AbortController(p), FALSE)
              /\ fetches' = [fetches EXCEPT ![p] = @ + 1]
              /\ pc' = [pc EXCEPT ![p] = "pfetch"]
              /\ url' = [url EXCEPT ![p] = keyUrl]
              /\ UNCHANGED <<sent, hit, evKeys, evIdx>>
  /\ UNCHANGED <<storeVars, aborts, fetched, response, fixedVars>>

\* fetch(msg.data.url, {signal}) settles: resp.ok goes on to open and put,
\* another status or a rejection broadcasts PrefetchError; then delete
PFetchSettle(p) ==
  /\ pc[p] = "pfetch"
  /\ LET keyUrl == removeQuery(url[p])
     IN  \E outcome \in IF aborted(p) THEN {"abort"} ELSE {"ok", "status", "neterr"} :
           /\ fetched' = [fetched EXCEPT ![p] = outcome]
           /\ IF outcome = "ok"
              THEN /\ goto(p, "pput")
                   /\ UNCHANGED <<sent, queue>>
              ELSE /\ sent' = [sent EXCEPT ![p] = Append(@, Msg("PrefetchError", keyUrl))]
                   /\ queue' = delete(queue, keyUrl)
                   /\ goto(p, "done")
  /\ UNCHANGED <<storeVars, aborts, kind, response, fetches,
                 fixedVars>>

\* `await caches.open` and `await cache.put(keyUrl, resp)` settle: broadcast
\* PrefetchCached and call evictCache, or .catch broadcasts PrefetchError; then delete
PPutSettle(p) ==
  /\ pc[p] = "pput"
  /\ LET keyUrl == removeQuery(url[p])
     IN  /\ \E ok \in BOOLEAN :
              IF ok
              THEN /\ store' = cachePut(store, keyUrl)
                   /\ lastPut' = keyUrl
                   /\ sent' = [sent EXCEPT ![p] = Append(@, Msg("PrefetchCached", keyUrl))]
                   /\ goto(p, "evictKeys")
              ELSE /\ sent' = [sent EXCEPT ![p] = Append(@, Msg("PrefetchError", keyUrl))]
                   /\ goto(p, "done")
                   /\ UNCHANGED storeVars
         /\ queue' = delete(queue, keyUrl)
  /\ UNCHANGED <<aborts, kind, fetched, response, fetches,
                 fixedVars>>

----------------------------------------------------------------------------
(* AudioCache.abort, called from outside *)

Abort(pathPrefix, keepDirect) ==
  /\ aborts < MaxAborts
  /\ aborts' = aborts + 1
  /\ queue' = abort(queue, pathPrefix, keepDirect)
  /\ UNCHANGED <<storeVars, procVars, fixedVars>>

----------------------------------------------------------------------------
(* The AudioCache controller *)

InitProcs ==
  /\ pc = [p \in Req |-> "idle"]
  /\ kind = [p \in Req |-> "none"]
  /\ url = [p \in Req |-> NoUrl]
  /\ hit = [p \in Req |-> FALSE]
  /\ fetched = [p \in Req |-> "none"]
  /\ evKeys = [p \in Req |-> <<>>]
  /\ evIdx = [p \in Req |-> 0]
  /\ sent = [p \in Req |-> <<>>]
  /\ response = [p \in Req |-> NoResp]
  /\ fetches = [p \in Req |-> 0]

InitRange ==
  /\ body = <<>>
  /\ rangeHeader = <<>>
  /\ result = NoResponse

\* the sequences without repetition over the set S, of length at most n
RECURSIVE Orderings(_, _)
Orderings(S, n) ==
  IF n = 0 THEN {<<>>}
  ELSE {<<>>} \cup UNION {{<<x>> \o t : t \in Orderings(S \ {x}, n - 1)} : x \in S}

Keys == {removeQuery(u) : u \in Urls}

\* A freshly constructed AudioCache: an empty queue, over a persistent store
\* that earlier runs left within the size limit.
Init ==
  /\ queue = <<>>
  /\ store \in Orderings(Keys, SizeLimit)
  /\ lastPut = newest(store)
  /\ aborts = 0
  /\ created = 0
  /\ sizeLimit = SizeLimit
  /\ isEnabled = TRUE
  /\ InitProcs
  /\ InitRange

Settle(p) ==
  \/ Matched(p)
  \/ PassFetchSettle(p)
  \/ FetchSettle(p)
  \/ PutSettle(p)
  \/ PFetchSettle(p)
  \/ PPutSettle(p)
  \/ EvictKeys(p)
  \/ EvictDelete(p)

Next ==
  \/ \E p \in Req, u \in Urls : HandleRequest(p, u)
  \/ \E p \in Req, u \in Urls : HandlePrefetch(p, u)
  \/ \E p \in Req : Settle(p)
  \/ \E pathPrefix \in Prefixes, keepDirect \in BOOLEAN : Abort(pathPrefix, keepDirect)

Spec == Init /\ [][Next]_vars

\* every pending promise of a request is eventually settled by the event loop
FairSpec == Spec /\ \A p \in Req : WF_vars(Settle(p))

----------------------------------------------------------------------------
(* The request queue alone, its methods called directly: add, delete, abort *)

QAdd(u, isDirect) ==
  /\ created < MaxCreated
  /\ created' = created + 1
  /\ queue' = add(queue, u, AbortController(created + 1), isDirect)
  /\ UNCHANGED <<storeVars, sizeLimit, aborts, procVars, isEnabled, rangeVars>>

QDelete(u) ==
  /\ queue' = delete(queue, u)
  /\ UNCHANGED <<created, storeVars, sizeLimit, aborts, procVars, isEnabled, rangeVars>>

NextQueue ==
  \/ \E u \in Keys, isDirect \in BOOLEAN : QAdd(u, isDirect)
  \/ \E u \in Keys : QDelete(u)
  \/ \E pathPrefix \in Prefixes, keepDirect \in BOOLEAN : Abort(pathPrefix, keepDirect)

SpecQueue == Init /\ [][NextQueue]_vars

----------------------------------------------------------------------------
(* One evictCache run on a store nothing else writes to *)

EvictKeySet == {[path |-> <<k>>, query |-> FALSE] : k \in 1..NEvictKeys}

InitEvict ==
  /\ queue = <<>>
  /\ created = 0
  /\ store \in Orderings(EvictKeySet, NEvictKeys)
  /\ lastPut = newest(store)
  /\ sizeLimit \in 0..NEvictKeys
  /\ aborts = 0
  /\ isEnabled = TRUE
  /\ pc = [p \in Req |-> IF p = 1 THEN "evictKeys" ELSE "idle"]
  /\ kind = [p \in Req |-> IF p = 1 THEN "direct" ELSE "none"]
  /\ url = [p \in Req |-> NoUrl]
  /\ hit = [p \in Req |-> FALSE]
  /\ fetched = [p \in Req |-> "none"]
  /\ evKeys = [p \in Req |-> <<>>]
  /\ evIdx = [p \in Req |-> 0]
  /\ sent = [p \in Req |-> <<>>]
  /\ response = [p \in Req |-> NoResp]
  /\ fetches = [p \in Req |-> 0]
  /\ InitRange

NextEvict == \E p \in Req : EvictKeys(p) \/ EvictDelete(p)

SpecEvict == InitEvict /\ [][NextEvict]_vars

\* Several evictCache runs on one store: every request has completed its
\* store and called evictCache, the store holds at least the newest record
InitEvictRace ==
  /\ queue = <<>>
  /\ created = 0
  /\ store \in Orderings(EvictKeySet, NEvictKeys) \ {<<>>}
  /\ lastPut = newest(store)
  /\ sizeLimit \in 0..NEvictKeys
  /\ aborts = 0
  /\ isEnabled = TRUE
  /\ pc = [p \in Req |-> "evictKeys"]
  /\ kind = [p \in Req |-> "direct"]
  /\ url = [p \in Req |-> NoUrl]
  /\ hit = [p \in Req |-> FALSE]
  /\ fetched = [p \in Req |-> "ok"]
  /\ evKeys = [p \in Req |-> <<>>]
  /\ evIdx = [p \in Req |-> 0]
  /\ sent = [p \in Req |-> <<>>]
  /\ response = [p \in Req |-> NoResp]
  /\ fetches = [p \in Req |-> 1]
  /\ InitRange

SpecEvictRace == InitEvictRace /\ [][NextEvict]_vars

----------------------------------------------------------------------------
(* buildResponse on one stored response and one range header *)

InitBuild ==
  /\ queue = <<>>
  /\ created = 0
  /\ store = <<>>
  /\ lastPut = newest(store)
  /\ sizeLimit = SizeLimit
  /\ aborts = 0
  /\ isEnabled = TRUE
  /\ InitProcs
  /\ body \in Bodies
  /\ rangeHeader \in RangeHeaders
  /\ result = NoResponse

BuildResponse ==
  /\ result = NoResponse
  /\ result' = buildResponse(fullResponse(body), rangeHeader)
  /\ UNCHANGED <<queue, created, storeVars, sizeLimit, aborts, procVars, isEnabled,
                 body, rangeHeader>>

SpecRange == InitBuild /\ [][BuildResponse]_vars

----------------------------------------------------------------------------
(* NetworkFirstCache *)

\* handleRequest(evt): nothing when disabled, else fetch(evt.request)
NFHandleRequest(p, u) ==
  /\ canStart(p)
  /\ kind' = [kind EXCEPT ![p] = "nf"]
  /\ IF isEnabled
     THEN /\ fetches' = [fetches EXCEPT ![p] = @ + 1]
          /\ url' = [url EXCEPT ![p] = u]
          /\ pc' = [pc EXCEPT ![p] = "nfFetch"]
          /\ UNCHANGED <<hit, evKeys, evIdx>>
     ELSE /\ goto(p, "done")
          /\ UNCHANGED fetches
  /\ UNCHANGED <<queue, storeVars, aborts, fetched, sent, response, fixedVars>>

\* fetch settles: status 200 goes on to caches.open; any other status is
\* thrown, and like a rejection reaches the catch, which opens the cache
NFFetchSettle(p) ==
  /\ pc[p] = "nfFetch"
  /\ \E outcome \in {"ok", "status", "neterr"} :
       /\ fetched' = [fetched EXCEPT ![p] = outcome]
       /\ goto(p, IF outcome = "ok" THEN "nfOpen" ELSE "nfFallback")
  /\ UNCHANGED <<queue, storeVars, aborts, kind, sent, response, fetches, fixedVars>>

\* caches.open settles on the success path: cache.put is called and the
\* response returned; a rejection reaches the catch with an error
NFOpenSettle(p) ==
  /\ pc[p] = "nfOpen"
  /\ \E ok \in BOOLEAN :
       IF ok
       THEN /\ response' = [response EXCEPT ![p] = NetworkResp(200)]
            /\ goto(p, "nfPut")
            /\ UNCHANGED fetched
       ELSE /\ fetched' = [fetched EXCEPT ![p] = "openerr"]
            /\ goto(p, "nfFallback")
            /\ UNCHANGED response
  /\ UNCHANGED <<queue, storeVars, aborts, kind, sent, fetches, fixedVars>>

\* cache.put(evt.request, response.clone()) settles: then evictCache
NFPutSettle(p) ==
  /\ pc[p] = "nfPut"
  /\ \E ok \in BOOLEAN :
       IF ok
       THEN /\ store' = cachePut(store, url[p])
            /\ lastPut' = url[p]
            /\ goto(p, "evictKeys")
       ELSE /\ goto(p, "done")
            /\ UNCHANGED storeVars
  /\ UNCHANGED <<queue, aborts, kind, fetched, sent, response, fetches, fixedVars>>

\* errorResponse(): the thrown response itself, or a synthetic 555
errorResponseAlways555(e) == ErrorResp

errorResponse(e) ==
  IF e = "status" THEN NetworkResp(404) ELSE ErrorResp

\* in the catch: caches.open and cache.match(evt.request) settle, and the
\* request is answered with the match, or with errorResponse()
NFFallback(p) ==
  /\ pc[p] = "nfFallback"
  /\ \E ok \in BOOLEAN :
       /\ hit' = [hit EXCEPT ![p] = ok /\ cacheHas(store, url[p])]
       /\ response' = [response EXCEPT ![p] =
                         IF ok /\ cacheHas(store, url[p]) THEN CachedResp
                         ELSE errorResponse(fetched[p])]
       /\ pc' = [pc EXCEPT ![p] = "done"]
       /\ url' = [url EXCEPT ![p] = NoUrl]
       /\ UNCHANGED <<evKeys, evIdx>>
  /\ UNCHANGED <<queue, storeVars, aborts, kind, fetched, sent, fetches, fixedVars>>

enable ==
  /\ isEnabled' = TRUE
  /\ UNCHANGED <<queue, created, storeVars, sizeLimit, aborts, procVars, rangeVars>>

disable ==
  /\ isEnabled' = FALSE
  /\ UNCHANGED <<queue, created, storeVars, sizeLimit, aborts, procVars, rangeVars>>

\* the URLs NetworkFirstCache is asked for: one path, with and without a
\* query string, which are two keys of its store (it does not normalize)
NFUrls == {u \in Urls : u.path = <<1>>}

InitNF ==
  /\ queue = <<>>
  /\ created = 0
  /\ store \in Orderings(NFUrls, SizeLimit)
  /\ lastPut = newest(store)
  /\ sizeLimit = SizeLimit
  /\ aborts = 0
  /\ isEnabled = TRUE
  /\ InitProcs
  /\ InitRange

NextNF ==
  \/ \E p \in Req, u \in NFUrls : NFHandleRequest(p, u)
  \/ \E p \in Req : NFFetchSettle(p)
  \/ \E p \in Req : NFOpenSettle(p)
  \/ \E p \in Req : NFPutSettle(p)
  \/ \E p \in Req : NFFallback(p)
  \/ \E p \in Req : EvictKeys(p)
  \/ \E p \in Req : EvictDelete(p)
  \/ enable
  \/ disable

SpecNF == InitNF /\ [][NextNF]_vars

----------------------------------------------------------------------------
(* Properties *)

\* the queue holds an item for url u
queued(q, u) == \E i \in 1..Len(q) : q[i].url = u

\* the queue holds the item request p registered
registered(p) == \E i \in 1..Len(queue) : queue[i].abort.id = p

\* C1: under any interleaving of handleRequest and handlePrefetch (and their
\* continuations) the queue never holds two items with the same normalized URL.
C1_OneEntryPerUrl ==
  \A i, j \in 1..Len(queue) : i # j => queue[i].url # queue[j].url

\* a direct request found its URL queued and is passing through
C1_Witness ==
  \E p \in Req : pc[p] = "passFetch" /\ queued(queue, removeQuery(url[p]))

\* C2: no item registered by a direct request stays in the queue after that
\* request's promise chain has ended, whatever the outcome.
C2_DirectEntryReleased ==
  \A i \in 1..Len(queue) : queue[i].isDirect => pc[queue[i].abort.id] # "done"

\* C3: an item registered by handlePrefetch is in the queue only while its
\* fetch or its store write is pending: every outcome of either removes it.
C3_PrefetchEntryReleased ==
  \A i \in 1..Len(queue) :
    ~queue[i].isDirect => pc[queue[i].abort.id] \in {"pfetch", "pput"}

\* C3, as progress: a registered prefetch item is eventually removed
C3_PrefetchEntryEventuallyReleased ==
  \A p \in Req : (kind[p] = "prefetch" /\ registered(p)) ~> ~registered(p)

\* a prefetch cancelled by abort has ended and its item is gone
C3_Witness ==
  \E p \in Req :
    /\ kind[p] = "prefetch" /\ pc[p] = "done"
    /\ fetched[p] = "abort" /\ ~registered(p)

\* two direct requests for one normalized URL, the first with its item in
\* the queue, the second passing through
concurrentPair(p, q) ==
  /\ p # q
  /\ kind[p] = "direct" /\ kind[q] = "direct"
  /\ pc[p] \in {"fetch", "put"} /\ pc[q] = "passFetch"
  /\ removeQuery(url[p]) = removeQuery(url[q])

\* C4, as claimed: two concurrent handleRequest calls for one uncached URL
\* issue at most one network fetch between them.
C4_AtMostOneNetworkFetch ==
  \A p, q \in Req : concurrentPair(p, q) => fetches[p] + fetches[q] <= 1

\* a direct request that took the pass-through: it fetched, and not through
\* the queue
passedThrough(q) ==
  kind[q] = "direct" /\ fetches[q] = 1 /\ fetched[q] = "none" /\ pc[q] # "fetch"

\* C4, amended: a handleRequest that finds its normalized URL queued issues
\* its own pass-through fetch and nothing else: it registers no item, writes
\* nothing to the store and broadcasts nothing; and no two requests are
\* fetching or storing the same normalized URL through the queue.
C4_PassThroughStaysOutOfCachePath ==
  /\ [](\A q \in Req :
          passedThrough(q) =>
            /\ pc[q] \in {"passFetch", "done"}
            /\ sent[q] = <<>>
            /\ ~registered(q))
  /\ [](\A p, q \in Req :
          (/\ p # q
           /\ pc[p] \in {"fetch", "put", "pfetch", "pput"}
           /\ pc[q] \in {"fetch", "put", "pfetch", "pput"})
          => removeQuery(url[p]) # removeQuery(url[q]))
  /\ [][\A q \in Req :
          /\ (/\ pc[q] = "matched" /\ pc'[q] # "matched"
              /\ ~hit[q] /\ queued(queue, removeQuery(url[q])))
             => (pc'[q] = "passFetch" /\ fetches'[q] = 1 /\ queue' = queue)
          /\ (pc[q] = "passFetch" /\ pc'[q] # "passFetch")
             => (pc'[q] = "done" /\ store' = store /\ queue' = queue /\ sent' = sent)
     ]_vars

C4_Witness == \E p, q \in Req : concurrentPair(p, q)

\* C5: add appends the new item and removes none; with isDirect it aborts
\* every item already queued that is direct and no other one; without
\* isDirect it aborts none.
C5_AddCancelsDirectOnly ==
  [][Len(queue') = Len(queue) + 1 =>
       LET new == queue'[Len(queue')]
       IN  \A i \in 1..Len(queue) :
             /\ queue'[i].url = queue[i].url
             /\ queue'[i].isDirect = queue[i].isDirect
             /\ queue'[i].abort.id = queue[i].abort.id
             /\ queue'[i].abort.aborted =
                  (queue[i].abort.aborted \/ (new.isDirect /\ queue[i].isDirect))
    ]_vars

\* with no abort call made: a direct item aborted, a prefetch item not
\* aborted, and the direct item whose add did it
C5_Witness ==
  /\ aborts = 0
  /\ Len(queue) = 3
  /\ queue[1].isDirect /\ queue[1].abort.aborted
  /\ ~queue[2].isDirect /\ ~queue[2].abort.aborted
  /\ queue[3].isDirect /\ ~queue[3].abort.aborted

\* C6: a handlePrefetch whose normalized URL is not queued registers it and
\* issues one fetch, and when the response is ok and stored, the record is in
\* the store under the normalized URL and PrefetchCached is broadcast; a
\* handlePrefetch whose normalized URL is queued broadcasts Skipped and does
\* nothing else: no fetch, no queue item, no store write.
C6_PrefetchOnceThenSkipped ==
  /\ [](\A p \in Req : kind[p] = "prefetch" =>
          /\ fetches[p] <= 1
          /\ (pc[p] \in {"pfetch", "pput", "evictKeys", "evictDel"} => fetches[p] = 1))
  /\ [][\A p \in Req :
          /\ (kind[p] = "none" /\ kind'[p] = "prefetch") =>
               IF pc'[p] = "done"
               THEN \E k \in Keys :
                      /\ queued(queue, k)
                      /\ sent'[p] = <<Msg("Skipped", k)>>
                      /\ fetches'[p] = 0
                      /\ queue' = queue
                      /\ store' = store
               ELSE /\ pc'[p] = "pfetch"
                    /\ ~queued(queue, removeQuery(url'[p]))
                    /\ queue' = Append(queue,
                         FetchQueueItem(removeQuery(url'[p]), AbortController(p), FALSE))
                    /\ fetches'[p] = 1
                    /\ sent'[p] = <<>>
                    /\ store' = store
          /\ (pc[p] = "pput" /\ pc'[p] = "evictKeys") =>
               /\ fetched[p] = "ok"
               /\ cacheHas(store', removeQuery(url[p]))
               /\ sent'[p] = <<Msg("PrefetchCached", removeQuery(url[p]))>>
     ]_vars

\* one prefetch stored its record and broadcast PrefetchCached, another for
\* the same URL was skipped
C6_Witness ==
  \E p, q \in Req, k \in Keys :
    /\ kind[p] = "prefetch" /\ kind[q] = "prefetch"
    /\ sent[p] = <<Msg("PrefetchCached", k)>>
    /\ sent[q] = <<Msg("Skipped", k)>>
    /\ cacheHas(store, k)

\* the keys of the Deleted messages request p broadcast
deletedKeys(msgs) == {msgs[i].cachedUrl : i \in {j \in 1..Len(msgs) : msgs[j].kind = "Deleted"}}

\* C7: a run of evictCache on a store of limit + k keys that nothing else
\* writes to ends with exactly the k oldest keys removed, the limit newest
\* left in their order, and onDelete called k times, once per removed key;
\* with at most limit keys it removes nothing and never calls onDelete.
C7_EvictsExactlyOldestExcess ==
  [][\A p \in Req :
       (pc[p] \in {"evictKeys", "evictDel"} /\ pc'[p] = "done") =>
         LET keys == IF pc[p] = "evictKeys" THEN store ELSE evKeys[p]
             k    == Len(keys) - sizeLimit
         IN  IF k > 0
             THEN /\ store' = SubSeq(keys, k + 1, Len(keys))
                  /\ Len(sent'[p]) = k
                  /\ deletedKeys(sent'[p]) = {keys[i] : i \in 1..k}
             ELSE /\ store' = keys
                  /\ sent'[p] = <<>>
    ]_vars

\* a finished run that removed two keys and kept a non-empty store
C7_Witness ==
  /\ pc[1] = "done"
  /\ Len(sent[1]) = 2
  /\ sizeLimit >= 1
  /\ Len(store) = sizeLimit

\* C8: for a body of N bytes and a header bytes=S-E with 0 <= S <= E < N
\* (E = 0 included), buildResponse returns status 206, Content-Range
\* "bytes S-E/N" and the E-S+1 bytes [S, E+1) of the body.
C8_ClosedRangeSlice ==
  \A S, E \in 0..MaxLen :
    (/\ S <= E /\ E < Len(body)
     /\ rangeHeader = rangeOf(S, <<E>>)
     /\ result # NoResponse)
    => /\ result.status = 206
       /\ result.contentRange = contentRange(S, E, Len(body))
       /\ Len(result.body) = E - S + 1
       /\ result.body = SubSeq(body, S + 1, E + 1)

\* C9: for a body of N bytes and a header bytes=S- with 0 <= S < N,
\* buildResponse returns status 206, the bytes [S, N) of the body and
\* Content-Range "bytes S-(N-1)/N"; with no range header it returns the
\* original response, status included.
C9_OpenRangeSliceAndNoRange ==
  /\ \A S \in 0..MaxLen :
       (/\ S < Len(body)
        /\ rangeHeader = rangeOf(S, Undefined)
        /\ result # NoResponse)
       => /\ result.status = 206
          /\ result.body = SubSeq(body, S + 1, Len(body))
          /\ result.contentRange = contentRange(S, Len(body) - 1, Len(body))
  /\ (rangeHeader = <<>> /\ result # NoResponse) => result = fullResponse(body)

\* an open-ended range into a body whose offsets need two digits
C9_Witness ==
  /\ Len(body) = 11
  /\ rangeHeader = rangeOf(10, Undefined)
  /\ result.status = 206
  /\ result.body = <<body[11]>>

\* C10, as claimed: a NetworkFirstCache request whose fetch returned a
\* non-200 status is answered with the cached entry when there is one and
\* with a synthetic 555 response when there is none.
C10_Non200Gives555OrCached ==
  \A p \in Req :
    (kind[p] = "nf" /\ fetched[p] = "status" /\ pc[p] = "done")
    => response[p] = IF hit[p] THEN CachedResp ELSE ErrorResp

\* C10, amended: such a request is answered with the cached entry when
\* cache.match finds one, and otherwise with the non-200 network response
\* itself; the request never reaches the store-writing path.
C10_Non200GivesItselfOrCached ==
  /\ [](\A p \in Req :
          (kind[p] = "nf" /\ fetched[p] = "status")
          => /\ pc[p] \in {"nfFallback", "done"}
             /\ pc[p] = "done" =>
                  response[p] = IF hit[p] THEN CachedResp ELSE NetworkResp(404))
  /\ [][\A p \in Req :
          (kind[p] = "nf" /\ fetched'[p] = "status" /\ pc'[p] # pc[p])
          => store' = store]_vars

\* one 404 answered from the cache, another answered with the 404 itself
C10_Witness ==
  \E p, q \in Req :
    /\ kind[p] = "nf" /\ fetched[p] = "status" /\ pc[p] = "done"
    /\ hit[p] /\ response[p] = CachedResp
    /\ kind[q] = "nf" /\ fetched[q] = "status" /\ pc[q] = "done"
    /\ ~hit[q] /\ response[q] = NetworkResp(404)

\* C11: once a record for normalized key K is in the store, every later
\* handleRequest for a URL that normalizes to K, with or without a query
\* string, finds it (a hit), is served from the store and issues no fetch.
C11_ServedFromStoreByNormalizedKey ==
  [][\A p \in Req :
       /\ (/\ pc[p] = "idle" /\ pc'[p] = "matched" /\ kind'[p] = "direct"
           /\ cacheHas(store, removeQuery(url'[p])))
          => hit'[p]
       /\ (pc[p] = "matched" /\ hit[p] /\ pc'[p] = "done")
          => (fetches'[p] = 0 /\ response'[p].from \in {"cache", "synthetic"})
    ]_vars

\* C12: handleRequest settles every intercepted request with a response: one
\* whose chain has ended has a response, and when opening the store, the
\* lookup, the range synthesis, the pass-through fetch or the direct fetch
\* fails (a fetch cancelled by abort included) that response is the synthetic
\* one of status 555.
C12_AlwaysAnsweredFailureIs555 ==
  /\ [](\A p \in Req : kind[p] = "direct" =>
          /\ pc[p] \notin {"idle", "matched", "passFetch", "fetch"}
             => response[p].from \in {"cache", "network", "synthetic"}
          /\ response[p].from = "synthetic" => response[p].status = 555
          /\ fetched[p] \in {"abort", "neterr"}
             => (pc[p] = "done" /\ response[p] = [from |-> "synthetic", status |-> 555]))
  /\ [][\A p \in Req :
          /\ (pc[p] = "idle" /\ kind'[p] = "direct" /\ pc'[p] = "done")
             => response'[p] = [from |-> "synthetic", status |-> 555]
          /\ (pc[p] = "matched" /\ hit[p] /\ pc'[p] = "done")
             => response'[p] \in {CachedResp, [from |-> "synthetic", status |-> 555]}
          /\ (pc[p] = "passFetch" /\ pc'[p] = "done")
             => response'[p] \in {NetworkResp(200), [from |-> "synthetic", status |-> 555]}
          /\ (pc[p] = "fetch" /\ pc'[p] = "done")
             => response'[p] = [from |-> "synthetic", status |-> 555]
     ]_vars

\* one direct request cancelled by abort and one whose store could not be
\* opened or read, both answered 555
C12_Witness ==
  \E p, q \in Req :
    /\ p # q
    /\ kind[p] = "direct" /\ fetched[p] = "abort" /\ pc[p] = "done"
    /\ response[p].status = 555
    /\ kind[q] = "direct" /\ fetches[q] = 0 /\ ~hit[q] /\ pc[q] = "done"
    /\ response[q].status = 555

\* the direct items of the queue whose handle has not been invoked
activeDirect(q) == {i \in 1..Len(q) : q[i].isDirect /\ ~q[i].abort.aborted}

\* the non-direct items of the queue whose handle has not been invoked
activePrefetch(q) == {i \in 1..Len(q) : ~q[i].isDirect /\ ~q[i].abort.aborted}

\* C13: with items added only by handleRequest and handlePrefetch, at most
\* one direct item of the queue has a handle that has not been invoked; the
\* queue puts no such limit on non-direct items: a handlePrefetch that
\* registers its item invokes no handle, whatever number of non-direct items
\* is active, so that number grows by one.
C13_OneActiveDirect ==
  /\ [](Cardinality(activeDirect(queue)) <= 1)
  /\ [][\A p \in Req :
          (kind[p] = "none" /\ kind'[p] = "prefetch" /\ pc'[p] = "pfetch")
          => /\ Cardinality(activePrefetch(queue')) = Cardinality(activePrefetch(queue)) + 1
             /\ activeDirect(queue') = activeDirect(queue)
     ]_vars

\* a direct item cancelled by the direct request that came after it, whose
\* own item is active
C13_Witness ==
  /\ aborts = 0
  /\ \E i, j \in 1..Len(queue) :
       /\ i < j
       /\ queue[i].isDirect /\ queue[i].abort.aborted
       /\ queue[j].isDirect /\ ~queue[j].abort.aborted

\* C14: handlePrefetch broadcasts Skipped for key K only while the request
\* that registered the queue item of K has its fetch in flight or its store
\* write pending, never because of an item whose operation has settled.
C14_SkippedOnlyWhileInFlight ==
  [][\A p \in Req :
       (kind[p] = "none" /\ kind'[p] = "prefetch" /\ pc'[p] = "done")
       => \E i \in 1..Len(queue) :
            /\ sent'[p] = <<Msg("Skipped", queue[i].url)>>
            /\ pc[queue[i].abort.id] \in {"fetch", "put", "pfetch", "pput"}
    ]_vars

\* the messages of kind k in a request's log
msgsOfKind(msgs, k) == {i \in 1..Len(msgs) : msgs[i].kind = k}

\* C15: a prefetch whose fetch was cancelled through its handle broadcasts no
\* PrefetchError; PrefetchError is broadcast only for a non-2xx status or a
\* network failure.
C15_AbortedPrefetchIsSilent ==
  \A p \in Req :
    (kind[p] = "prefetch" /\ fetched[p] = "abort")
    => msgsOfKind(sent[p], "PrefetchError") = {}

\* C16: a direct request whose fetch succeeded after a cache miss is answered
\* with the network response, from the moment the fetch settles and whatever
\* the store, the broadcast and the eviction do afterwards; and none of their
\* failures ends in a rejection that nothing handles.
C16_ServedResponseCommitted ==
  \A p \in Req :
    (kind[p] = "direct" /\ fetched[p] = "ok")
    => /\ response[p] = [from |-> "network", status |-> 200]
       /\ pc[p] # "unhandled"

\* the requests that broadcast a message in this step
senders == {p \in Req : Len(sent'[p]) > Len(sent[p])}

\* C17: when several evictCache runs interleave on one store, every record
\* removed gives exactly one Deleted notification, sent by the run that
\* removed it; a run whose key was already removed by another run sends
\* nothing, changes nothing and goes on to its next key or ends normally.
C17_OneDeletedPerRemovedRecord ==
  /\ [](\A p, q \in Req :
          /\ Len(sent[p]) = Cardinality(deletedKeys(sent[p]))
          /\ deletedKeys(sent[p]) \cap Range(store) = {}
          /\ p # q => deletedKeys(sent[p]) \cap deletedKeys(sent[q]) = {})
  /\ [][/\ Cardinality(senders) = Cardinality(Range(store) \ Range(store'))
        /\ \A p \in senders :
             /\ Len(sent'[p]) = Len(sent[p]) + 1
             /\ sent'[p][Len(sent'[p])].kind = "Deleted"
             /\ Range(store) \ Range(store') = {sent'[p][Len(sent'[p])].cachedUrl}
        /\ \A p \in Req :
             (/\ pc[p] = "evictDel" /\ pc'[p] # "unhandled"
              /\ (pc'[p] # pc[p] \/ evIdx'[p] # evIdx[p])
              /\ deleteList(evKeys[p], sizeLimit)[evIdx[p]] \notin Range(store))
             => /\ store' = store /\ sent' = sent
                /\ pc'[p] \in {"evictDel", "done"}
     ]_vars

\* a run has gone past the first key of its list without a notification,
\* because another run had removed that key and sent the notification
C17_Witness ==
  \E p, q \in Req :
    /\ p # q
    /\ pc[p] = "evictDel" /\ evIdx[p] >= 2
    /\ LET k == deleteList(evKeys[p], sizeLimit)[1]
       IN  k \notin deletedKeys(sent[p]) /\ k \in deletedKeys(sent[q])

\* the item is one that abort(pathPrefix, keepDirect) is to cancel: its path
\* begins with pathPrefix (any path for the empty prefix), and it is not a
\* direct item kept by keepDirect
toCancel(item, pathPrefix, keepDirect) ==
  /\ \/ pathPrefix = <<>>
     \/ /\ Len(pathPrefix) <= Len(item.url.path)
        /\ \A k \in 1..Len(pathPrefix) : item.url.path[k] = pathPrefix[k]
  /\ ~(keepDirect /\ item.isDirect)

\* q2 is q with the handles of exactly the items to cancel invoked, and the
\* same items in the same order
cancelledExactly(q, q2, pathPrefix, keepDirect) ==
  /\ Len(q2) = Len(q)
  /\ \A i \in 1..Len(q) :
       /\ q2[i].url = q[i].url
       /\ q2[i].isDirect = q[i].isDirect
       /\ q2[i].abort.id = q[i].abort.id
       /\ q2[i].abort.aborted =
            (q[i].abort.aborted \/ toCancel(q[i], pathPrefix, keepDirect))

\* C18: abort(pathPrefix, keepDirect) invokes the handle of exactly the items
\* whose path starts with pathPrefix (all items for the empty prefix), the
\* direct ones excepted when keepDirect is set; it invokes no other handle
\* and leaves the membership and the order of the queue as they were.
C18_AbortInvokesExactlyMatching ==
  /\ [](\A pathPrefix \in Prefixes, keepDirect \in BOOLEAN :
          cancelledExactly(queue, abort(queue, pathPrefix, keepDirect),
                           pathPrefix, keepDirect))
  /\ [][aborts' # aborts =>
          \E pathPrefix \in Prefixes, keepDirect \in BOOLEAN :
            cancelledExactly(queue, queue', pathPrefix, keepDirect)]_vars

\* after abort(<<1, 2>>, TRUE): a prefetch item under the prefix cancelled, a
\* direct item under the prefix queued before it kept, and a prefetch item
\* outside the prefix untouched
C18_Witness ==
  /\ aborts = 1
  /\ \E i, j, k \in 1..Len(queue) :
       /\ i < j
       /\ queue[i].isDirect /\ ~queue[i].abort.aborted
       /\ queue[i].url.path = <<1, 2>>
       /\ ~queue[j].isDirect /\ queue[j].abort.aborted
       /\ queue[j].url.path = <<1, 2>>
       /\ ~queue[k].isDirect /\ ~queue[k].abort.aborted
       /\ queue[k].url.path = <<1>>

\* the Cached message a request of that kind broadcasts for key
cachedMsg(k, key) ==
  Msg(IF k = "direct" THEN "ActualCached" ELSE "PrefetchCached", key)

\* C19: within one request the StatusEvents follow causal order: its Cached
\* message (ActualCached or PrefetchCached) for key K is broadcast when the
\* record for K has been written; a Deleted message for a key is broadcast
\* when that key has been removed; its Deleted messages come after its Cached
\* message; and a request whose store failed broadcasts no Cached message.
C19_EventsInCausalOrder ==
  /\ [](\A p \in Req :
          /\ Cardinality(msgsOfKind(sent[p], "ActualCached")
                         \cup msgsOfKind(sent[p], "PrefetchCached")) <= 1
          /\ \A i \in msgsOfKind(sent[p], "Deleted") :
               i > 1 /\ sent[p][1].kind \in {"ActualCached", "PrefetchCached"}
          /\ \A i \in msgsOfKind(sent[p], "ActualCached")
                      \cup msgsOfKind(sent[p], "PrefetchCached") :
               /\ i = 1
               /\ pc[p] \in {"evictKeys", "evictDel", "done", "unhandled"})
  /\ [][\A p \in senders :
          LET m == sent'[p][Len(sent'[p])]
          IN  /\ Len(sent'[p]) = Len(sent[p]) + 1
              /\ m.kind \in {"ActualCached", "PrefetchCached"} =>
                   /\ pc[p] \in {"put", "pput"}
                   /\ m = cachedMsg(kind[p], removeQuery(url[p]))
                   /\ m.cachedUrl \in Range(store')
                   /\ store'[Len(store')] = m.cachedUrl
              /\ m.kind = "Deleted" =>
                   /\ m.cachedUrl \in Range(store)
                   /\ m.cachedUrl \notin Range(store')
     ]_vars
  /\ [][\A p \in Req :
          (pc[p] \in {"put", "pput"} /\ pc'[p] = "done")
          => /\ store' = store
             /\ msgsOfKind(sent'[p], "ActualCached") = {}
             /\ msgsOfKind(sent'[p], "PrefetchCached") = {}
     ]_vars

\* a request that stored its record, broadcast Cached and then Deleted for
\* the record its eviction removed
C19_Witness ==
  \E p \in Req, k1, k2 \in Keys :
    /\ k1 # k2
    /\ sent[p] = <<cachedMsg(kind[p], k1), Msg("Deleted", k2)>>
    /\ cacheHas(store, k1) /\ ~cacheHas(store, k2)

\* no fetch, store or eviction is still running, and none ended in a failure
\* that nothing handled
quiescent == \A p \in Req : pc[p] \in {"idle", "done"}

\* C20: with sizeLimit >= 1, in every quiescent state the store holds at most
\* sizeLimit records, and the record stored last is one of them.
C20_QuiescentStoreKeepsNewest ==
  (sizeLimit >= 1 /\ quiescent)
  => /\ Len(store) <= sizeLimit
     /\ lastPut # NoUrl => cacheHas(store, lastPut)
====
